---- MODULE Spec2Model ----
(***************************************************************************)
(* Model of src/app/page.tsx (Miliora Diff Checker).                       *)
(*                                                                         *)
(* A text is a sequence of one-character strings; a token is a text; a     *)
(* segment is a record [text, type].  Array indices are 0-based as in the  *)
(* source: element n of a JavaScript array a is a[n+1] here.               *)
(*                                                                         *)
(* Three specifications share the module:                                  *)
(*   Spec      the page: the four React state cells and their handlers     *)
(*             (lastHandler is the handler that ran last);                 *)
(*   SpecDiff  computeDiff's loop, one action per branch of the loop body, *)
(*             started on every pair of token arrays within the bounds;    *)
(*   SpecTok   String.prototype.split(/(\s+)/) applied to every text       *)
(*             within the bounds.                                          *)
(***************************************************************************)
EXTENDS Integers, Sequences, FiniteSets, TLC

VARIABLES leftText, rightText, diffResults, showResults, lastHandler,
          left, right, i, j, result, branch,
          input, words, tokDone

pageVars == <<leftText, rightText, diffResults, showResults, lastHandler>>
diffVars == <<left, right, i, j, result, branch>>
tokVars  == <<input, words, tokDone>>
vars     == <<leftText, rightText, diffResults, showResults, lastHandler,
              left, right, i, j, result, branch, input, words, tokDone>>

----------------------------------------------------------------------------
(* Bounds *)

\* longest text typed into a textarea in Spec
MaxTextLen == 2
\* longest token array given to computeDiff in SpecDiff
MaxLen == 6
\* longest text given to the tokenizer in SpecTok
MaxStrLen == 4

\* characters typed into the textareas in Spec
PageChars == {"a", " "}
\* characters of the texts tokenized in SpecTok
TokChars == {"a", "b", " ", "\n"}
\* token values of the arrays aligned in SpecDiff
DiffTokens == {<<"a">>, <<"b">>}
\* keys pressed in a textarea
Keys == {"Enter", "a"}

SeqsUpTo(S, n) == UNION {[1..m -> S] : m \in 0..n}

----------------------------------------------------------------------------
(* Strings *)

\* the characters the regular expression class \s and trim() treat as white space
IsSpace(c) == c \in {" ", "\n"}

RECURSIVE TrimStart(_)
TrimStart(s) ==
    IF Len(s) > 0 /\ IsSpace(s[1]) THEN TrimStart(Tail(s)) ELSE s

RECURSIVE TrimEnd(_)
TrimEnd(s) ==
    IF Len(s) > 0 /\ IsSpace(s[Len(s)]) THEN TrimEnd(SubSeq(s, 1, Len(s) - 1)) ELSE s

\* String.prototype.trim
trim(s) == TrimEnd(TrimStart(s))

\* !s.trim(): the empty string is the only falsy string
TrimIsEmpty(s) == trim(s) = <<>>

----------------------------------------------------------------------------
(* s.split(/(\s+)/)                                                        *)

\* end (exclusive, 0-based) of the greedy match of \s+ at position q; q itself when
\* there is no match
RECURSIVE MatchEnd(_, _)
MatchEnd(S, q) ==
    IF q < Len(S) /\ IsSpace(S[q + 1]) THEN MatchEnd(S, q + 1) ELSE q

\* the loop of RegExp.prototype[Symbol.split]: p is the start of the piece not yet
\* emitted, q the position the separator is tried at, A the array built so far
RECURSIVE SplitLoop(_, _, _, _)
SplitLoop(S, p, q, A) ==
    IF q >= Len(S)
    THEN Append(A, SubSeq(S, p + 1, Len(S)))
    ELSE LET e == MatchEnd(S, q) IN
         IF e = q \/ e = p
         THEN SplitLoop(S, p, q + 1, A)
         ELSE SplitLoop(S, e, e, A \o <<SubSeq(S, p + 1, q), SubSeq(S, q + 1, e)>>)

\* a split that forgets the capture group: the separators are dropped
SplitNoCapture(S) ==
    LET all == IF Len(S) = 0 THEN << <<>> >> ELSE SplitLoop(S, 0, 0, <<>>)
        RECURSIVE Odd(_)
        Odd(a) == IF Len(a) = 0 THEN <<>>
                  ELSE IF Len(a) = 1 THEN a
                  ELSE <<a[1]>> \o Odd(SubSeq(a, 3, Len(a)))
    IN Odd(all)

\* a split that drops empty pieces
SplitNoEmpty(S) ==
    LET all == IF Len(S) = 0 THEN << <<>> >> ELSE SplitLoop(S, 0, 0, <<>>)
    IN SelectSeq(all, LAMBDA t : t # <<>>)

\* a split of the trimmed text
SplitTrimmed(S) ==
    IF Len(trim(S)) = 0 THEN << <<>> >> ELSE SplitLoop(trim(S), 0, 0, <<>>)

\* text.split(/(\s+)/): the separator cannot match the empty string, so the empty
\* string gives the one-element array [""]
Split(S) ==
    IF Len(S) = 0 THEN << <<>> >> ELSE SplitLoop(S, 0, 0, <<>>)

----------------------------------------------------------------------------
(* computeDiff                                                             *)

added(t)     == [text |-> t, type |-> "added"]
removed(t)   == [text |-> t, type |-> "removed"]
unchanged(t) == [text |-> t, type |-> "unchanged"]

\* the exclusive bound of both lookahead loops: k < j + 5, k < i + 5
LookaheadBound == 5

NoMatch == -1

\* a lookahead that reaches one element further
RECURSIVE ScanWide(_, _, _, _)
ScanWide(arr, from, k, tok) ==
    IF ~(k < Len(arr) /\ k < from + LookaheadBound + 1) THEN NoMatch
    ELSE IF arr[k + 1] = tok THEN k
    ELSE ScanWide(arr, from, k + 1, tok)

\* for (let k = from + 1; k < arr.length && k < from + 5; k++) if (arr[k] === tok) ...
\* the first k the loop body accepts, NoMatch when the loop runs out
RECURSIVE Scan(_, _, _, _)
Scan(arr, from, k, tok) ==
    IF ~(k < Len(arr) /\ k < from + LookaheadBound) THEN NoMatch
    ELSE IF arr[k + 1] = tok THEN k
    ELSE Scan(arr, from, k + 1, tok)

\* the branches tried in the other order: the scan of left before the scan of right
BranchLeftFirst(l, r, ci, cj) ==
    IF ci >= Len(l) THEN "leftExhausted"
    ELSE IF cj >= Len(r) THEN "rightExhausted"
    ELSE IF l[ci + 1] = r[cj + 1] THEN "same"
    ELSE IF Scan(l, ci, ci + 1, r[cj + 1]) # NoMatch THEN "matchInLeft"
    ELSE IF Scan(r, cj, cj + 1, l[ci + 1]) # NoMatch THEN "matchInRight"
    ELSE "replacement"

\* the branch of the loop body taken at cursors (ci, cj).  Every element of a token
\* array is a string, so none of the `!== undefined` tests fails below the array's
\* length and the else branch of line 147 is never taken.
Branch(l, r, ci, cj) ==
    IF ci >= Len(l) THEN "leftExhausted"
    ELSE IF cj >= Len(r) THEN "rightExhausted"
    ELSE IF l[ci + 1] = r[cj + 1] THEN "same"
    ELSE IF Scan(r, cj, cj + 1, l[ci + 1]) # NoMatch THEN "matchInRight"
    ELSE IF Scan(l, ci, ci + 1, r[cj + 1]) # NoMatch THEN "matchInLeft"
    ELSE "replacement"

\* arr[from .. to) each pushed with the given type
Pushed(arr, from, to, type) ==
    [n \in 1..(to - from) |-> [text |-> arr[from + n], type |-> type]]

\* a match in right that resumes at the matched element instead of after it
AfterMatchInRightStuck(l, r, ci, cj, res) ==
    LET k == Scan(r, cj, cj + 1, l[ci + 1]) IN
    [i |-> ci + 1, j |-> k,
     result |-> res \o Pushed(r, cj, k, "added") \o <<unchanged(l[ci + 1])>>]

AfterLeftExhausted(l, r, ci, cj, res) ==
    [i |-> ci, j |-> cj + 1, result |-> Append(res, added(r[cj + 1]))]

AfterRightExhausted(l, r, ci, cj, res) ==
    [i |-> ci + 1, j |-> cj, result |-> Append(res, removed(l[ci + 1]))]

\* a match that advances the left cursor alone
AfterSameLeftOnly(l, r, ci, cj, res) ==
    [i |-> ci + 1, j |-> cj, result |-> Append(res, unchanged(l[ci + 1]))]

AfterSame(l, r, ci, cj, res) ==
    [i |-> ci + 1, j |-> cj + 1, result |-> Append(res, unchanged(l[ci + 1]))]

AfterMatchInRight(l, r, ci, cj, res) ==
    LET k == Scan(r, cj, cj + 1, l[ci + 1]) IN
    [i |-> ci + 1, j |-> k + 1,
     result |-> res \o Pushed(r, cj, k, "added") \o <<unchanged(l[ci + 1])>>]

AfterMatchInLeft(l, r, ci, cj, res) ==
    LET k == Scan(l, ci, ci + 1, r[cj + 1]) IN
    [i |-> k + 1, j |-> cj + 1,
     result |-> res \o Pushed(l, ci, k, "removed") \o <<unchanged(l[k + 1])>>]

\* a replacement that leaves the right cursor where it is
AfterReplacementKeepsRight(l, r, ci, cj, res) ==
    [i |-> ci + 1, j |-> cj,
     result |-> res \o <<removed(l[ci + 1]), added(r[cj + 1])>>]

AfterReplacement(l, r, ci, cj, res) ==
    [i |-> ci + 1, j |-> cj + 1,
     result |-> res \o <<removed(l[ci + 1]), added(r[cj + 1])>>]

\* one iteration of the while loop
Iteration(l, r, ci, cj, res) ==
    LET b == Branch(l, r, ci, cj) IN
    CASE b = "leftExhausted"  -> AfterLeftExhausted(l, r, ci, cj, res)
      [] b = "rightExhausted" -> AfterRightExhausted(l, r, ci, cj, res)
      [] b = "same"           -> AfterSame(l, r, ci, cj, res)
      [] b = "matchInRight"   -> AfterMatchInRight(l, r, ci, cj, res)
      [] b = "matchInLeft"    -> AfterMatchInLeft(l, r, ci, cj, res)
      [] b = "replacement"    -> AfterReplacement(l, r, ci, cj, res)

\* while (i < left.length || j < right.length)
LoopCondition(l, r, ci, cj) == ci < Len(l) \/ cj < Len(r)

RECURSIVE Loop(_, _, _, _, _)
Loop(l, r, ci, cj, res) ==
    IF LoopCondition(l, r, ci, cj)
    THEN LET n == Iteration(l, r, ci, cj, res) IN Loop(l, r, n.i, n.j, n.result)
    ELSE res

computeDiff(l, r) == Loop(l, r, 0, 0, <<>>)

----------------------------------------------------------------------------
(* The page: state cells of HomePage and their handlers                    *)

Texts == SeqsUpTo(PageChars, MaxTextLen)

PageInit ==
    /\ leftText = <<>>
    /\ rightText = <<>>
    /\ diffResults = <<>>
    /\ showResults = FALSE
    /\ lastHandler = "none"

DiffIdle ==
    /\ left = <<>>
    /\ right = <<>>
    /\ i = 0
    /\ j = 0
    /\ result = <<>>
    /\ branch = "start"

TokIdle ==
    /\ input = <<>>
    /\ words = <<>>
    /\ tokDone = FALSE

Init == PageInit /\ DiffIdle /\ TokIdle

handleLeftTextChange(value) ==
    /\ leftText' = value
    /\ lastHandler' = "handleLeftTextChange"
    /\ UNCHANGED <<rightText, diffResults, showResults, diffVars, tokVars>>

handleRightTextChange(value) ==
    /\ rightText' = value
    /\ lastHandler' = "handleRightTextChange"
    /\ UNCHANGED <<leftText, diffResults, showResults, diffVars, tokVars>>

\* a Compare that takes the early return when either text is blank
handleCompareEitherBlank ==
    /\ IF TrimIsEmpty(leftText) \/ TrimIsEmpty(rightText)
       THEN /\ diffResults' = <<>>
            /\ showResults' = FALSE
       ELSE /\ diffResults' = computeDiff(Split(leftText), Split(rightText))
            /\ showResults' = TRUE
    /\ lastHandler' = "handleCompare"
    /\ UNCHANGED <<leftText, rightText, diffVars, tokVars>>

handleCompare ==
    /\ IF TrimIsEmpty(leftText) /\ TrimIsEmpty(rightText)
       THEN /\ diffResults' = <<>>
            /\ showResults' = FALSE
       ELSE /\ diffResults' = computeDiff(Split(leftText), Split(rightText))
            /\ showResults' = TRUE
    /\ lastHandler' = "handleCompare"
    /\ UNCHANGED <<leftText, rightText, diffVars, tokVars>>

\* a Clear that hides the results and keeps the segments
handleClearKeepsSegments ==
    /\ leftText' = <<>>
    /\ rightText' = <<>>
    /\ showResults' = FALSE
    /\ lastHandler' = "handleClear"
    /\ UNCHANGED <<diffResults, diffVars, tokVars>>

handleClear ==
    /\ leftText' = <<>>
    /\ rightText' = <<>>
    /\ diffResults' = <<>>
    /\ showResults' = FALSE
    /\ lastHandler' = "handleClear"
    /\ UNCHANGED <<diffVars, tokVars>>

handleKeyDown(key, ctrlKey, metaKey) ==
    IF key = "Enter" /\ (ctrlKey \/ metaKey)
    THEN handleCompare
    ELSE UNCHANGED vars

\* the branch of the render that shows "No differences found."
NoDifferencesShown == showResults /\ Len(diffResults) = 0

Next ==
    \/ \E value \in Texts : handleLeftTextChange(value)
    \/ \E value \in Texts : handleRightTextChange(value)
    \/ handleCompare
    \/ handleClear
    \/ \E key \in Keys, ctrlKey \in BOOLEAN, metaKey \in BOOLEAN :
          handleKeyDown(key, ctrlKey, metaKey)

Spec == Init /\ [][Next]_vars

----------------------------------------------------------------------------
(* computeDiff's loop, one action per branch                               *)

TokenArrays == SeqsUpTo(DiffTokens, MaxLen)

InitDiff ==
    /\ left \in TokenArrays
    /\ right \in TokenArrays
    /\ i = 0
    /\ j = 0
    /\ result = <<>>
    /\ branch = "start"
    /\ PageInit
    /\ TokIdle

\* the loop is at the head of an iteration that takes branch b
At(b) == LoopCondition(left, right, i, j) /\ Branch(left, right, i, j) = b

Becomes(n, b) ==
    /\ i' = n.i
    /\ j' = n.j
    /\ result' = n.result
    /\ branch' = b
    /\ UNCHANGED <<left, right, pageVars, tokVars>>

LeftExhausted ==
    At("leftExhausted") /\ Becomes(AfterLeftExhausted(left, right, i, j, result), "leftExhausted")

RightExhausted ==
    At("rightExhausted") /\ Becomes(AfterRightExhausted(left, right, i, j, result), "rightExhausted")

Same ==
    At("same") /\ Becomes(AfterSame(left, right, i, j, result), "same")

MatchInRight ==
    At("matchInRight") /\ Becomes(AfterMatchInRight(left, right, i, j, result), "matchInRight")

MatchInLeft ==
    At("matchInLeft") /\ Becomes(AfterMatchInLeft(left, right, i, j, result), "matchInLeft")

Replacement ==
    At("replacement") /\ Becomes(AfterReplacement(left, right, i, j, result), "replacement")

NextDiff ==
    \/ LeftExhausted
    \/ RightExhausted
    \/ Same
    \/ MatchInRight
    \/ MatchInLeft
    \/ Replacement

SpecDiff == InitDiff /\ [][NextDiff]_vars

\* the loop is synchronous code: an iteration that can run does run
SpecDiffFair == SpecDiff /\ WF_vars(NextDiff)

----------------------------------------------------------------------------
(* The tokenizer applied to a text                                         *)

Strings == SeqsUpTo(TokChars, MaxStrLen)

InitTok ==
    /\ input \in Strings
    /\ words = <<>>
    /\ tokDone = FALSE
    /\ PageInit
    /\ DiffIdle

Tokenize ==
    /\ ~tokDone
    /\ words' = Split(input)
    /\ tokDone' = TRUE
    /\ UNCHANGED <<input, pageVars, diffVars>>

NextTok == Tokenize

SpecTok == InitTok /\ [][NextTok]_vars

----------------------------------------------------------------------------
(* Vocabulary of the properties                                            *)

\* the texts of the segments of res whose type is in kinds, in order
TextsOf(res, kinds) ==
    LET kept == SelectSeq(res, LAMBDA seg : seg.type \in kinds)
    IN [n \in 1..Len(kept) |-> kept[n].text]

RECURSIVE Concat(_)
Concat(ts) == IF ts = <<>> THEN <<>> ELSE Head(ts) \o Concat(Tail(ts))

TypesIn(res) == {res[n].type : n \in 1..Len(res)}

AllSpace(s) == \A n \in 1..Len(s) : IsSpace(s[n])

Max(a, b) == IF a >= b THEN a ELSE b

\* the maximal runs of white space and of other characters of s, in order
RECURSIVE Runs(_)
Runs(s) ==
    IF s = <<>> THEN <<>>
    ELSE LET n == CHOOSE m \in 1..Len(s) :
                     /\ \A q \in 1..m : IsSpace(s[q]) = IsSpace(s[1])
                     /\ m = Len(s) \/ IsSpace(s[m + 1]) # IsSpace(s[1])
         IN <<SubSeq(s, 1, n)>> \o Runs(SubSeq(s, n + 1, Len(s)))

Done == ~LoopCondition(left, right, i, j)

\* the loop is at the head of an iteration whose two current tokens differ
Mismatch == i < Len(left) /\ j < Len(right) /\ left[i + 1] # right[j + 1]

\* left[i] occurs in right[j+1 .. j+4]
InRightWindow == \E k \in (j + 1)..(j + 4) : k < Len(right) /\ right[k + 1] = left[i + 1]

\* right[j] occurs in left[i+1 .. i+4]
InLeftWindow == \E k \in (i + 1)..(i + 4) : k < Len(left) /\ left[k + 1] = right[j + 1]

----------------------------------------------------------------------------
(* computeDiff: SpecDiff                                                   *)

\* C1: at every point of the loop the unchanged and removed segments, in order, are
\* token for token the part of left consumed so far, and the unchanged and added
\* segments the part of right consumed so far; on return they are left and right.
C1_Reconstruction ==
    /\ TextsOf(result, {"unchanged", "removed"}) = SubSeq(left, 1, i)
    /\ TextsOf(result, {"unchanged", "added"}) = SubSeq(right, 1, j)
    /\ Done => /\ TextsOf(result, {"unchanged", "removed"}) = left
               /\ TextsOf(result, {"unchanged", "added"}) = right

C1_Witness ==
    /\ Done
    /\ Len(left) >= 3
    /\ Len(right) >= 3
    /\ TypesIn(result) = {"unchanged", "removed", "added"}
    /\ TextsOf(result, {"unchanged", "removed"}) = left

\* C3: computeDiff(T, T) only ever takes the exact-match branch: the cursors stay
\* equal, the n-th segment is unchanged T[n], the mismatch branch is never at hand,
\* and the result has Len(T) segments.
C3_Identity ==
    left = right =>
        /\ i = j
        /\ result = [n \in 1..i |-> unchanged(left[n])]
        /\ branch \in {"start", "same"}
        /\ ~Mismatch
        /\ Done => Len(result) = Len(left)

C3_Witness ==
    /\ left = right
    /\ Len(left) >= 3
    /\ Done
    /\ Len(result) = Len(left)
    /\ {left[n] : n \in 1..Len(left)} = DiffTokens

\* C4: every iteration advances a cursor and moves none back, the cursors stay
\* within the arrays, the loop ends, and it ends with both cursors at the end and
\* between max(len(left), len(right)) and len(left) + len(right) segments.
C4_Termination ==
    /\ [][i' >= i /\ j' >= j /\ i' + j' > i + j]_vars
    /\ [](i <= Len(left) /\ j <= Len(right))
    /\ [](Done => /\ i = Len(left)
                  /\ j = Len(right)
                  /\ Len(result) >= Max(Len(left), Len(right))
                  /\ Len(result) <= Len(left) + Len(right))
    /\ <>Done

C4_Witness ==
    /\ Done
    /\ Len(left) >= 2
    /\ Len(right) > Len(left)
    /\ Len(result) > Len(right)
    /\ Len(result) < Len(left) + Len(right)

\* C8: in a mismatch step a resync is taken only on a match 1 to 4 places ahead; with
\* no match in either window the step is a replacement (removed, then added, both
\* cursors one further) whatever lies 5 or more places ahead; a match 4 places ahead
\* is found.
C8_Window ==
    [][Mismatch =>
        /\ (~InRightWindow /\ ~InLeftWindow) =>
              /\ result' = result \o <<removed(left[i + 1]), added(right[j + 1])>>
              /\ i' = i + 1
              /\ j' = j + 1
        /\ branch' = "matchInRight" =>
              /\ j' - 1 \in (j + 1)..(j + 4)
              /\ right[j'] = left[i + 1]
        /\ branch' = "matchInLeft" =>
              /\ i' - 1 \in (i + 1)..(i + 4)
              /\ left[i'] = right[j + 1]
        /\ (j + 4 < Len(right) /\ right[j + 5] = left[i + 1]) =>
              branch' = "matchInRight"
        /\ (~InRightWindow /\ i + 4 < Len(left) /\ left[i + 5] = right[j + 1]) =>
              branch' = "matchInLeft"
    ]_vars

\* the first iteration was a replacement although left[0] = right[5]
C8_Witness ==
    /\ branch = "replacement"
    /\ i = 1
    /\ j = 1
    /\ Len(right) >= 6
    /\ right[6] = left[1]
    /\ result = <<removed(left[1]), added(right[1])>>

\* C9: when both resyncs are possible the match in right is taken: right[j..k) added,
\* then left[i] unchanged, i one further and j past k, k the first match; the match in
\* left is taken only when right's window has none.
C9_InsertionFirst ==
    [][Mismatch =>
        /\ InRightWindow =>
              LET k == CHOOSE k \in (j + 1)..(j + 4) :
                          /\ k < Len(right)
                          /\ right[k + 1] = left[i + 1]
                          /\ \A m \in (j + 1)..(k - 1) : right[m + 1] # left[i + 1]
              IN /\ result' = result \o [n \in 1..(k - j) |-> added(right[j + n])]
                                     \o <<unchanged(left[i + 1])>>
                 /\ i' = i + 1
                 /\ j' = k + 1
        /\ branch' = "matchInLeft" => ~InRightWindow
    ]_vars

\* the first iteration took the match in right while right[0] occurs in left[1..4]
C9_Witness ==
    /\ branch = "matchInRight"
    /\ i = 1
    /\ j >= 3
    /\ Len(result) = j
    /\ \E k \in 1..4 : k < Len(left) /\ left[k + 1] = right[1]
    /\ "removed" \notin TypesIn(result)

----------------------------------------------------------------------------
(* The tokenizer: SpecTok                                                  *)

\* C6: the tokens of a text concatenate, in order, to the text; the empty text gives
\* exactly one empty token.
C6_TokensRejoin ==
    tokDone =>
        /\ Concat(words) = input
        /\ input = <<>> => words = << <<>> >>

C6_Witness ==
    /\ tokDone
    /\ Len(words) >= 4
    /\ IsSpace(input[1])
    /\ Concat(words) = input

\* C7 as claimed: the tokens of a non-empty text are exactly its maximal runs, one
\* token per run, none of them empty.
C7_RunsOnly ==
    (tokDone /\ input # <<>>) => words = Runs(input)

\* C7 as amended: the tokens of a non-empty text are its maximal runs in order, with
\* one empty token in front when the text begins with white space and one empty
\* token behind when it ends with white space, and no other empty token.
C7_RunsAndEdges ==
    (tokDone /\ input # <<>>) =>
        words = (IF IsSpace(input[1]) THEN << <<>> >> ELSE <<>>)
                \o Runs(input)
                \o (IF IsSpace(input[Len(input)]) THEN << <<>> >> ELSE <<>>)

C7_Witness ==
    /\ tokDone
    /\ Len(input) >= 3
    /\ IsSpace(input[1])
    /\ IsSpace(input[Len(input)])
    /\ ~AllSpace(input)
    /\ words[1] = <<>>
    /\ words[Len(words)] = <<>>

----------------------------------------------------------------------------
(* The page: Spec                                                          *)

\* the unchanged and removed segments rejoin to the original text, the unchanged
\* and added segments to the modified text
Rejoins ==
    /\ Concat(TextsOf(diffResults, {"unchanged", "removed"})) = leftText
    /\ Concat(TextsOf(diffResults, {"unchanged", "added"})) = rightText

\* C2 as claimed: after a Compare of any two texts the segments rejoin to both.
C2_RejoinsAlways ==
    lastHandler = "handleCompare" => Rejoins

\* C2 as amended: after a Compare of two texts of which at least one has a character
\* that is not white space the segments rejoin to both; after a Compare of two texts
\* without such a character there is no segment.
C2_RejoinsUnlessBlank ==
    lastHandler = "handleCompare" =>
        IF AllSpace(leftText) /\ AllSpace(rightText)
        THEN diffResults = <<>>
        ELSE Rejoins

C2_Witness ==
    /\ lastHandler = "handleCompare"
    /\ AllSpace(leftText)
    /\ leftText # <<>>
    /\ ~AllSpace(rightText)
    /\ Rejoins
    /\ "added" \in TypesIn(diffResults)

\* C5: after a Compare of two texts that trim to nothing there is no segment, which
\* the tokenizer and computeDiff never give; after any other Compare the segments
\* are computeDiff of the two texts' tokens.
C5_ShortCircuit ==
    lastHandler = "handleCompare" =>
        IF AllSpace(leftText) /\ AllSpace(rightText)
        THEN /\ diffResults = <<>>
             /\ diffResults # computeDiff(Split(leftText), Split(rightText))
        ELSE /\ diffResults = computeDiff(Split(leftText), Split(rightText))
             /\ diffResults # <<>>

C5_Witness ==
    /\ lastHandler = "handleCompare"
    /\ AllSpace(leftText)
    /\ AllSpace(rightText)
    /\ Len(leftText) >= 1
    /\ diffResults = <<>>
    /\ ~showResults

\* C10: the results are shown exactly when there is a segment, so "No differences
\* found." is never rendered; after a Compare of two equal texts that are not blank
\* the results are shown and every segment is unchanged.
C10_ShownIffSegments ==
    /\ showResults <=> diffResults # <<>>
    /\ ~NoDifferencesShown
    /\ (lastHandler = "handleCompare" /\ leftText = rightText /\ ~AllSpace(leftText)) =>
          /\ showResults
          /\ TypesIn(diffResults) = {"unchanged"}

C10_Witness ==
    /\ lastHandler = "handleCompare"
    /\ leftText = rightText
    /\ Len(leftText) >= 2
    /\ ~AllSpace(leftText)
    /\ showResults
    /\ TypesIn(diffResults) = {"unchanged"}

====
